---- MODULE Spec2Model ----
(***************************************************************************)
(* PodMeter (main.go): the request handler that records one observation    *)
(* per request into the bounded sample window, the stats handler that      *)
(* copies the window under the read lock and computes the statistics       *)
(* outside it, and the cached Envoy admin probe.                           *)
(*                                                                         *)
(* Every goroutine is a task with a program counter; one action is one     *)
(* statement (or one run of statements that touch no shared state).        *)
(***************************************************************************)
EXTENDS Integers, Sequences, FiniteSets, Bags, TLC

\* ------------------------------------------------------------------ bounds
\* Window capacity. main.go:107 uses 1000; the model scales it down.
W == 2
\* Total number of requests served by handler over a run.
MaxRequests == 3
\* Total number of /stats requests served over a run.
MaxStatsCalls == 1
\* The clock runs from 0 (startTime) to MaxTime ticks.
MaxTime == 1
\* The probe-cache scenario: /stats requests served and clock range.
MaxProbeCalls == 3
MaxProbeTime == 2
\* Probe cooldown in ticks. main.go:398 uses 30 seconds; scaled down.
Cooldown == 2
\* The statistics alone: snapshots of up to MaxLen observations with
\* latencies SleepMs..SleepMs+MaxSpread and hop counts 0..MaxHops, one
\* snapshot of SampleLen distinct latencies, counter values up to MaxCount
\* and uptimes up to MaxUptime.
MaxLen == 3
MaxSpread == 1
MaxHops == 1
SampleLen == 100
MaxCount == 2
MaxUptime == 1
\* The hop classifier alone: forwarding headers list up to MaxEntries
\* addresses.
MaxEntries == 3
\* The scheduling scenario: requests and /stats requests served.
MaxLiveRequests == 1
MaxLiveStats == 2
\* main.go:107: the window capacity itself, for the index arithmetic.
WindowCap == 1000

\* ------------------------------------------------------------------ tasks
Handlers == {"h1", "h2"}
StatsTasks == {"s1", "s2"}
\* The stats task of the whole-service specification.
MainStats == {"s1"}
Tasks == Handlers \cup StatsTasks
None == "none"
\* The response slot of a /stats request that has written nothing yet.
NoResponse == [written |-> FALSE]

\* The handler sleeps 20 ms (main.go:95); the k-th request (k = 0, 1, ...)
\* measures SleepMs + k, so that every observation can be told apart.
SleepMs == 20

\* ---------------------------------------------------------------- requests
\* A request is its header map; a header value is a sequence of characters,
\* << >> being the absent/empty header (r.Header.Get returns "").
NoHeaders ==
  [xff |-> << >>, via |-> << >>, reqid |-> << >>, extaddr |-> << >>,
   decorator |-> << >>, traceid |-> << >>, spanid |-> << >>,
   attempt |-> << >>, internal |-> << >>]

XffReq == [NoHeaders EXCEPT !.xff = <<"a", ",", "b">>]
MeshReq == [NoHeaders EXCEPT !.traceid = <<"t">>, !.decorator = <<"d">>]

HandlerRequests == {NoHeaders, XffReq}
StatsRequests == {NoHeaders, MeshReq}

RECURSIVE CountCommas(_)
CountCommas(s) ==
  IF s = << >> THEN 0
  ELSE (IF Head(s) = "," THEN 1 ELSE 0) + CountCommas(Tail(s))

countProxyHops_IgnoresVia(r) ==
  IF r.xff # << >> THEN 1 + CountCommas(r.xff) ELSE 0

\* main.go:118-145
countProxyHops(r) ==
  (IF r.xff # << >> THEN 1 + CountCommas(r.xff) ELSE 0)
  + (IF r.via # << >> THEN 1 + CountCommas(r.via) ELSE 0)

countServiceMeshHops_CountsEntries(r) ==
  (IF r.reqid # << >> THEN 1 ELSE 0)
  + (IF r.extaddr # << >> THEN 1 ELSE 0)
  + (IF r.decorator # << >> THEN 1 ELSE 0)
  + (IF r.traceid # << >> THEN 1 + CountCommas(r.traceid) ELSE 0)
  + (IF r.spanid # << >> THEN 1 ELSE 0)

\* main.go:148-174
countServiceMeshHops(r) ==
  (IF r.reqid # << >> THEN 1 ELSE 0)
  + (IF r.extaddr # << >> THEN 1 ELSE 0)
  + (IF r.decorator # << >> THEN 1 ELSE 0)
  + (IF r.traceid # << >> THEN 1 ELSE 0)
  + (IF r.spanid # << >> THEN 1 ELSE 0)

countTotalHops_ProxyOnly(r) == countProxyHops(r)

\* main.go:177-179
countTotalHops(r) == countProxyHops(r) + countServiceMeshHops(r)

hasIstioHeaders(r) ==
  \/ r.traceid # << >>
  \/ r.decorator # << >>
  \/ r.reqid # << >>
  \/ r.attempt # << >> \/ r.internal # << >>

\* ------------------------------------------------------------------- state
VARIABLES
  latencies,          \* []float64, the window's latencies
  proxyHops,          \* []int, the window's hop counts
  caps,               \* cap(latencies), cap(proxyHops)
  muWriter,           \* mu: the task holding the write lock, or None
  muReaders,          \* mu: the tasks holding the read lock
  requests,           \* atomic.Int64
  errors,             \* atomic.Int64
  requestsViaProxy,   \* atomic.Int64
  now,                \* the wall clock, in ticks since startTime
  idmWriter,          \* istioDetectMu: the task holding the write lock
  idmReaders,         \* istioDetectMu: the tasks holding the read lock
  istioPresentCached, \* bool
  istioLastChecked,   \* time.Time; ZeroTime until the first refresh
  pc,                 \* each task's position
  hl,                 \* handler locals: [lat, hops]
  sl,                 \* statsHandler locals
  resp,               \* the last response each stats task encoded, or NoResponse
  budget,             \* the run's scenario: [requests, stats, ticks]
  \* history variables (not program state)
  started,            \* number of handler requests begun
  statsCalls,         \* number of stats requests begun
  arrivals,           \* observations in the order writers acquired mu
  completed,          \* bag of the observations of finished handlers
  committed,          \* the store at the last mu.Unlock
  seen,               \* per stats task: committed stores during its snapshot
  snapTaken,          \* per stats task: its copies as of mu.RUnlock
  probes,             \* number of probes issued
  probeLog,           \* the <<time, result>> of each probe, in completion order
  refreshLog,         \* the <<present, checkedAt>> pairs written back
  readAt              \* per stats task: Len(refreshLog) when it read the cache

storeVars == <<latencies, proxyHops, caps>>
muVars == <<muWriter, muReaders>>
counterVars == <<requests, errors, requestsViaProxy>>
cacheVars == <<idmWriter, idmReaders, istioPresentCached, istioLastChecked>>
histVars == <<started, statsCalls, arrivals, completed, committed, seen,
              snapTaken, probes, probeLog, refreshLog, readAt>>
vars == <<storeVars, muVars, counterVars, now, cacheVars, pc, hl, sl, resp,
          budget, histVars>>

\* time.Time{}: the zero time lies further back than any cooldown.
ZeroTime == 0 - (Cooldown + 1)

HLInit == [req |-> NoHeaders, lat |-> 0, hops |-> 0]

SLInit ==
  [req |-> NoHeaders, latenciesCopy |-> << >>, proxyHopsCopy |-> << >>,
   totalRequests |-> 0, totalErrors |-> 0, totalViaProxy |-> 0,
   uptime |-> 0, istioHeaderSignal |-> FALSE,
   recent |-> FALSE, cached |-> FALSE, present |-> FALSE,
   istioDetected |-> FALSE]

\* Everything but the tasks' positions and the stats locals.
StartShared ==
  /\ latencies = << >>
  /\ proxyHops = << >>
  /\ caps = [latencies |-> W, proxyHops |-> W]
  /\ muWriter = None
  /\ muReaders = {}
  /\ requests = 0
  /\ errors = 0
  /\ requestsViaProxy = 0
  /\ now = 0
  /\ idmWriter = None
  /\ idmReaders = {}
  /\ istioPresentCached = FALSE
  /\ istioLastChecked = ZeroTime
  /\ hl = [h \in Handlers |-> HLInit]
  /\ resp = [s \in StatsTasks |-> NoResponse]
  /\ started = 0
  /\ statsCalls = 0
  /\ arrivals = << >>
  /\ completed = EmptyBag
  /\ committed = << << >>, << >> >>
  /\ seen = [s \in StatsTasks |-> {}]
  /\ snapTaken = [s \in StatsTasks |-> << << >>, << >> >>]
  /\ probes = 0
  /\ probeLog = << >>
  /\ refreshLog = << >>
  /\ readAt = [s \in StatsTasks |-> 0]

Start ==
  /\ StartShared
  /\ pc = [t \in Tasks |-> "idle"]
  /\ sl = [s \in StatsTasks |-> SLInit]

\* The whole service: MaxRequests requests, MaxStatsCalls /stats requests.
Init ==
  /\ Start
  /\ budget = [requests |-> MaxRequests, stats |-> MaxStatsCalls,
               ticks |-> MaxTime]

\* ------------------------------------------------------------- sync.RWMutex
MuCanLock_NoExclusion == TRUE
MuCanRLock_NoExclusion == TRUE

\* Lock blocks while any reader or writer holds the mutex. (A blocked Lock
\* also holds back later RLock calls; the model lets them through, which
\* only adds interleavings.)
MuCanLock == muWriter = None /\ muReaders = {}
\* RLock blocks while a writer holds the mutex.
MuCanRLock == muWriter = None
IdmCanLock == idmWriter = None /\ idmReaders = {}
IdmCanRLock == idmWriter = None

\* ------------------------------------------------------------------ handler
Goto(t, l) == pc' = [pc EXCEPT ![t] = l]

DropOldest_Clears(s) == << >>
DropOldest_DropsNewest(s) == SubSeq(s, 1, Len(s) - 1)
Overflow_OffByOne(s) == Len(s) > W + 1

\* s[1:]
DropOldest(s) == Tail(s)
\* len(latencies) > 1000
Overflow(s) == Len(s) > W

HandlerStartFrom_CountsError(h, R) ==
  /\ pc[h] = "idle"
  /\ started < budget.requests
  /\ \E r \in R :
       hl' = [hl EXCEPT ![h] = [req |-> r, lat |-> SleepMs + started,
                                hops |-> countTotalHops(r)]]
  /\ started' = started + 1
  /\ requests' = requests + 1
  /\ errors' = errors + 1
  /\ Goto(h, "add_via")
  /\ UNCHANGED <<budget, storeVars, muVars, requestsViaProxy, now,
                 cacheVars, sl, resp, statsCalls, arrivals, completed,
                 committed, seen, snapTaken, probes, probeLog, refreshLog, readAt>>

HandlerStartFrom_SkipsCount(h, R) ==
  /\ pc[h] = "idle"
  /\ started < budget.requests
  /\ \E r \in R :
       hl' = [hl EXCEPT ![h] = [req |-> r, lat |-> SleepMs + started,
                                hops |-> countTotalHops(r)]]
  /\ started' = started + 1
  /\ Goto(h, "add_via")
  /\ UNCHANGED <<budget, storeVars, muVars, counterVars, now,
                 cacheVars, sl, resp, statsCalls, arrivals, completed,
                 committed, seen, snapTaken, probes, probeLog, refreshLog, readAt>>

\* main.go:89-99: a request from the set R arrives; classify it, sleep,
\* measure the latency, count the request.
HandlerStartFrom(h, R) ==
  /\ pc[h] = "idle"
  /\ started < budget.requests
  /\ \E r \in R :
       hl' = [hl EXCEPT ![h] = [req |-> r, lat |-> SleepMs + started,
                                hops |-> countTotalHops(r)]]
  /\ started' = started + 1
  /\ requests' = requests + 1
  /\ Goto(h, "add_via")
  /\ UNCHANGED <<budget, storeVars, muVars, errors, requestsViaProxy, now,
                 cacheVars, sl, resp, statsCalls, arrivals, completed,
                 committed, seen, snapTaken, probes, probeLog, refreshLog, readAt>>

HandlerStart(h) == HandlerStartFrom(h, HandlerRequests)

AddViaProxy_AddsHops(h) ==
  /\ pc[h] = "add_via"
  /\ requestsViaProxy' = requestsViaProxy + hl[h].hops
  /\ Goto(h, "lock")
  /\ UNCHANGED <<budget, storeVars, muVars, requests, errors, now, cacheVars,
                 hl, sl, resp, histVars>>

\* main.go:100-102
AddViaProxy(h) ==
  /\ pc[h] = "add_via"
  /\ requestsViaProxy' =
       IF hl[h].hops > 0 THEN requestsViaProxy + 1 ELSE requestsViaProxy
  /\ Goto(h, "lock")
  /\ UNCHANGED <<budget, storeVars, muVars, requests, errors, now, cacheVars, hl, sl,
                 resp, histVars>>

\* main.go:104
HandlerLock(h) ==
  /\ pc[h] = "lock"
  /\ MuCanLock
  /\ muWriter' = h
  /\ arrivals' = Append(arrivals, <<hl[h].lat, hl[h].hops>>)
  /\ Goto(h, "append_lat")
  /\ UNCHANGED <<budget, storeVars, muReaders, counterVars, now, cacheVars, hl, sl,
                 resp, started, statsCalls, completed, committed, seen,
                 snapTaken, probes, probeLog, refreshLog, readAt>>

\* append(s, x) on a slice of length len and capacity cap: the backing
\* array is kept while it has room; otherwise append allocates a new one
\* (runtime.growslice doubles the capacity of a small slice).
NewCap(len, cap) == IF len < cap THEN cap ELSE 2 * cap

\* main.go:105
AppendLat(h) ==
  /\ pc[h] = "append_lat"
  /\ latencies' = Append(latencies, hl[h].lat)
  /\ caps' = [caps EXCEPT !.latencies = NewCap(Len(latencies), @)]
  /\ Goto(h, "append_hops")
  /\ UNCHANGED <<budget, proxyHops, muVars, counterVars, now, cacheVars, hl, sl, resp,
                 histVars>>

\* main.go:106
AppendHops(h) ==
  /\ pc[h] = "append_hops"
  /\ proxyHops' = Append(proxyHops, hl[h].hops)
  /\ caps' = [caps EXCEPT !.proxyHops = NewCap(Len(proxyHops), @)]
  /\ Goto(h, "evict")
  /\ UNCHANGED <<budget, latencies, muVars, counterVars, now, cacheVars, hl, sl, resp,
                 histVars>>

\* main.go:107-110
Evict(h) ==
  /\ pc[h] = "evict"
  /\ IF Overflow(latencies)
       THEN /\ latencies' = DropOldest(latencies)
            /\ proxyHops' = DropOldest(proxyHops)
            /\ caps' = [latencies |-> caps.latencies - 1,
                        proxyHops |-> caps.proxyHops - 1]
       ELSE UNCHANGED storeVars
  /\ Goto(h, "unlock")
  /\ UNCHANGED <<budget, muVars, counterVars, now, cacheVars, hl, sl, resp,
                 histVars>>

InSnapshot(s) ==
  pc[s] \in {"make_lat", "make_hops", "copy_lat", "copy_hops",
             "runlock"}

\* main.go:111-114: unlock and answer 200 OK; the request is complete.
HandlerUnlock(h) ==
  /\ pc[h] = "unlock"
  /\ muWriter' = None
  /\ committed' = <<latencies, proxyHops>>
  /\ seen' = [s \in StatsTasks |->
               IF InSnapshot(s) THEN seen[s] \cup {<<latencies, proxyHops>>}
               ELSE seen[s]]
  /\ completed' = completed (+) SetToBag({<<hl[h].lat, hl[h].hops>>})
  /\ hl' = [hl EXCEPT ![h] = HLInit]
  /\ Goto(h, "idle")
  /\ UNCHANGED <<budget, storeVars, muReaders, counterVars, now, cacheVars, sl,
                 resp, started, statsCalls, arrivals, snapTaken, probes, probeLog,
                 refreshLog, readAt>>

HandlerStep(h) ==
  \/ HandlerStart(h)
  \/ AddViaProxy(h)
  \/ HandlerLock(h)
  \/ AppendLat(h)
  \/ AppendHops(h)
  \/ Evict(h)
  \/ HandlerUnlock(h)

\* The handler serving requests from the set R.
HandlerStepFrom(h, R) ==
  \/ HandlerStartFrom(h, R)
  \/ AddViaProxy(h)
  \/ HandlerLock(h)
  \/ AppendLat(h)
  \/ AppendHops(h)
  \/ Evict(h)
  \/ HandlerUnlock(h)

\* -------------------------------------------------------------- statistics
\* main.go:281-294: one pass over the copy accumulates sum, minLat and
\* maxLat. The pass is halved recursively, which gives the same totals
\* (the latencies are whole milliseconds, so the float sum is exact).
RECURSIVE SumFrom(_, _, _)
SumFrom(s, lo, hi) ==
  IF lo > hi THEN 0
  ELSE IF lo = hi THEN s[lo]
  ELSE LET mid == (lo + hi) \div 2
       IN SumFrom(s, lo, mid) + SumFrom(s, mid + 1, hi)

Sum(s) == SumFrom(s, 1, Len(s))

RECURSIVE MinFrom(_, _, _)
MinFrom(s, lo, hi) ==
  IF lo = hi THEN s[lo]
  ELSE LET mid == (lo + hi) \div 2
           a == MinFrom(s, lo, mid)
           b == MinFrom(s, mid + 1, hi)
       IN IF b < a THEN b ELSE a

Min(s) == MinFrom(s, 1, Len(s))

RECURSIVE MaxFrom(_, _, _)
MaxFrom(s, lo, hi) ==
  IF lo = hi THEN s[lo]
  ELSE LET mid == (lo + hi) \div 2
           a == MaxFrom(s, lo, mid)
           b == MaxFrom(s, mid + 1, hi)
       IN IF b > a THEN b ELSE a

Max(s) == MaxFrom(s, 1, Len(s))

\* math.Ceil(p * len) for p = pm / 1000. The float64 nearest to each of
\* 0.50, 0.95, 0.99, 0.999 is not above it, and p * len is a multiple of
\* 0.001, so the rounded float product has the ceiling of the exact one
\* for every len up to the capacity and far beyond.
CeilMille(pm, n) == (pm * n + 999) \div 1000

percentile_Descending(data, pm) ==
  LET copyData == SortSeq(data, LAMBDA a, b : a > b)
      idx == CeilMille(pm, Len(copyData)) - 1
  IN copyData[idx + 1]

percentile_Unsorted(data, pm) ==
  LET copyData == data
      idx == CeilMille(pm, Len(copyData)) - 1
  IN copyData[idx + 1]

\* main.go:362-368; p is given in thousandths (500, 950, 990, 999).
percentile(data, pm) ==
  LET copyData == SortSeq(data, LAMBDA a, b : a < b)
      idx == CeilMille(pm, Len(copyData)) - 1
  IN copyData[idx + 1]

\* main.go:363-364: what data holds when percentile returns. The copy is a
\* new array (append to an empty literal) and sort.Float64s sorts that
\* array, so the caller's array is not written.
percentileData_SortsInPlace(data, pm) == SortSeq(data, LAMBDA a, b : a < b)
percentileData(data, pm) == data

\* main.go:296-300: the snapshot as the k-th of the four percentile calls
\* finds it (k = 1..4), and as the last one leaves it (k = 5).
RECURSIVE AtCall(_, _)
AtCall(lats, k) ==
  IF k = 1 THEN lats
  ELSE percentileData(AtCall(lats, k - 1), <<500, 950, 990, 999>>[k - 1])

\* main.go:370-372 applied to num/den (both >= 0, den > 0): the result in
\* hundredths, halves rounded away from zero.
round(num, den) == (200 * num + den) \div (2 * den)

StatsLatencies_ReadsStore(s) == latencies

\* The sequences the statistics are computed from.
StatsLatencies(s) == sl[s].latenciesCopy

StatsHops_ReadsStore(s) == proxyHops

StatsHops(s) == sl[s].proxyHopsCopy

WindowEmpty_ChecksStore(s) == Len(latencies) = 0

\* main.go:241: len(latenciesCopy) == 0
WindowEmpty(s) == Len(StatsLatencies(s)) = 0

avgHops_NoDivision(hopsCopy) ==
  IF Len(hopsCopy) > 0 THEN round(Sum(hopsCopy), 1) ELSE 0

\* main.go:225-233
avgHops(hopsCopy) ==
  IF Len(hopsCopy) > 0 THEN round(Sum(hopsCopy), Len(hopsCopy)) ELSE 0

\* main.go:274-276, 302-306, 313
successRate_Unguarded(totalRequests, totalErrors) ==
  IF totalRequests = 0
    THEN 0 - 1  \* 0/0: NaN, not a percentage
    ELSE round((totalRequests - totalErrors) * 100, totalRequests)

successRate(totalRequests, totalErrors) ==
  IF totalRequests > 0
    THEN round((totalRequests - totalErrors) * 100, totalRequests)
    ELSE 100 * 100

\* main.go:245, 312: round(float64(totalRequests) / uptime). Dividing a
\* float64 by 0.0 gives +Inf, or NaN for 0/0, and math.Round keeps both.
requestsPerSecond(totalRequests, uptime) ==
  IF uptime > 0
    THEN [kind |-> "finite", hundredths |-> round(totalRequests, uptime)]
    ELSE [kind |-> IF totalRequests > 0 THEN "+Inf" ELSE "NaN",
          hundredths |-> 0]

\* main.go:241-357: the Stats value; floats are in hundredths. Past the
\* emptiness check the code indexes the copy (latenciesCopy[0] at
\* main.go:283, copyData[idx] at main.go:367): on an empty slice that is a
\* run-time panic and no statistics.
Compute(s, lats, hopsCopy) ==
  LET l == sl[s]
      panics == ~WindowEmpty(s) /\ Len(lats) = 0
      empty == WindowEmpty(s) \/ panics
  IN [requests |-> l.totalRequests,
      errors |-> l.totalErrors,
      requests_per_second |-> requestsPerSecond(l.totalRequests, l.uptime),
      panicked |-> panics,
      success_rate_percent |-> successRate(l.totalRequests, l.totalErrors),
      window |-> Len(lats),
      avg_latency_ms |-> IF empty THEN 0 ELSE round(Sum(lats), Len(lats)),
      p50_latency_ms |->
        IF empty THEN 0 ELSE round(percentile(AtCall(lats, 1), 500), 1),
      p95_latency_ms |->
        IF empty THEN 0 ELSE round(percentile(AtCall(lats, 2), 950), 1),
      p99_latency_ms |->
        IF empty THEN 0 ELSE round(percentile(AtCall(lats, 3), 990), 1),
      p999_latency_ms |->
        IF empty THEN 0 ELSE round(percentile(AtCall(lats, 4), 999), 1),
      min_latency_ms |-> IF empty THEN 0 ELSE round(Min(lats), 1),
      max_latency_ms |-> IF empty THEN 0 ELSE round(Max(lats), 1),
      uptime_seconds |-> l.uptime,
      proxy_hop_count |-> countProxyHops(l.req),
      service_mesh_hops |-> countServiceMeshHops(l.req),
      total_hop_count |-> countTotalHops(l.req),
      avg_proxy_hops |-> avgHops(hopsCopy),
      proxy_detected |-> countTotalHops(l.req) > 0,
      istio_sidecar_detected |-> l.istioDetected,
      requests_via_proxy |-> l.totalViaProxy]

\* ------------------------------------------------------------ statsHandler
SetL(s, f, v) == sl' = [sl EXCEPT ![s][f] = v]

\* make([]T, n)
Make(n) == [i \in 1..n |-> 0]
\* copy(dst, src): the first min(len(dst), len(src)) elements
Copy(dst, src) ==
  [i \in 1..Len(dst) |-> IF i <= Len(src) THEN src[i] ELSE dst[i]]

StatsRLock_CountsItself(s) ==
  /\ pc[s] = "idle"
  /\ statsCalls < budget.stats
  /\ MuCanRLock
  /\ statsCalls' = statsCalls + 1
  /\ requests' = requests + 1
  /\ \E r \in StatsRequests : sl' = [sl EXCEPT ![s] = [SLInit EXCEPT !.req = r]]
  /\ muReaders' = muReaders \cup {s}
  /\ seen' = [seen EXCEPT ![s] = {committed}]
  /\ Goto(s, "make_lat")
  /\ UNCHANGED <<budget, storeVars, muWriter, errors, requestsViaProxy, now, cacheVars, hl,
                 resp, started, arrivals, completed, committed, snapTaken,
                 probes, probeLog, refreshLog, readAt>>

\* main.go:183: a /stats request arrives and takes the read lock.
StatsRLock(s) ==
  /\ pc[s] = "idle"
  /\ statsCalls < budget.stats
  /\ MuCanRLock
  /\ statsCalls' = statsCalls + 1
  /\ \E r \in StatsRequests : sl' = [sl EXCEPT ![s] = [SLInit EXCEPT !.req = r]]
  /\ muReaders' = muReaders \cup {s}
  /\ seen' = [seen EXCEPT ![s] = {committed}]
  /\ Goto(s, "make_lat")
  /\ UNCHANGED <<budget, storeVars, muWriter, counterVars, now, cacheVars, hl,
                 resp, started, arrivals, completed, committed, snapTaken,
                 probes, probeLog, refreshLog, readAt>>

\* main.go:184
MakeLat(s) ==
  /\ pc[s] = "make_lat"
  /\ SetL(s, "latenciesCopy", Make(Len(latencies)))
  /\ Goto(s, "make_hops")
  /\ UNCHANGED <<budget, storeVars, muVars, counterVars, now, cacheVars, hl, resp,
                 histVars>>

\* main.go:185
MakeHops(s) ==
  /\ pc[s] = "make_hops"
  /\ SetL(s, "proxyHopsCopy", Make(Len(proxyHops)))
  /\ Goto(s, "copy_lat")
  /\ UNCHANGED <<budget, storeVars, muVars, counterVars, now, cacheVars, hl, resp,
                 histVars>>

\* main.go:186
CopyLat(s) ==
  /\ pc[s] = "copy_lat"
  /\ SetL(s, "latenciesCopy", Copy(sl[s].latenciesCopy, latencies))
  /\ Goto(s, "copy_hops")
  /\ UNCHANGED <<budget, storeVars, muVars, counterVars, now, cacheVars, hl, resp,
                 histVars>>

\* main.go:187
CopyHops(s) ==
  /\ pc[s] = "copy_hops"
  /\ SetL(s, "proxyHopsCopy", Copy(sl[s].proxyHopsCopy, proxyHops))
  /\ Goto(s, "runlock")
  /\ UNCHANGED <<budget, storeVars, muVars, counterVars, now, cacheVars, hl, resp,
                 histVars>>

StatsRUnlock_KeepsLock(s) ==
  /\ pc[s] = "runlock"
  /\ snapTaken' =
       [snapTaken EXCEPT ![s] = <<sl[s].latenciesCopy, sl[s].proxyHopsCopy>>]
  /\ Goto(s, "load_requests")
  /\ UNCHANGED <<budget, storeVars, muVars, counterVars, now, cacheVars, hl, sl,
                 resp, started, statsCalls, arrivals, completed, committed,
                 seen, probes, probeLog, refreshLog, readAt>>

\* main.go:188
StatsRUnlock(s) ==
  /\ pc[s] = "runlock"
  /\ muReaders' = muReaders \ {s}
  /\ snapTaken' =
       [snapTaken EXCEPT ![s] = <<sl[s].latenciesCopy, sl[s].proxyHopsCopy>>]
  /\ Goto(s, "load_requests")
  /\ UNCHANGED <<budget, storeVars, muWriter, counterVars, now, cacheVars, hl, sl,
                 resp, started, statsCalls, arrivals, completed, committed,
                 seen, probes, probeLog, refreshLog, readAt>>

LoadRequests_SwapsToZero(s) ==
  /\ pc[s] = "load_requests"
  /\ sl' = [sl EXCEPT ![s].totalRequests = requests,
                      ![s].totalErrors = errors]
  /\ requests' = 0
  /\ Goto(s, "load_via")
  /\ UNCHANGED <<budget, storeVars, muVars, errors, requestsViaProxy, now,
                 cacheVars, hl, resp, histVars>>

\* main.go:191-192
LoadRequests(s) ==
  /\ pc[s] = "load_requests"
  /\ sl' = [sl EXCEPT ![s].totalRequests = requests,
                      ![s].totalErrors = errors]
  /\ Goto(s, "load_via")
  /\ UNCHANGED <<budget, storeVars, muVars, counterVars, now, cacheVars, hl,
                 resp, histVars>>

\* main.go:193
LoadViaProxy(s) ==
  /\ pc[s] = "load_via"
  /\ SetL(s, "totalViaProxy", requestsViaProxy)
  /\ Goto(s, "uptime")
  /\ UNCHANGED <<budget, storeVars, muVars, counterVars, now, cacheVars, hl, resp,
                 histVars>>

ReadUptime_ProbeOverridesHeaders(s) ==
  /\ pc[s] = "uptime"
  /\ LET sig == hasIstioHeaders(sl[s].req) IN
       /\ sl' = [sl EXCEPT ![s].uptime = now,
                           ![s].istioHeaderSignal = sig,
                           ![s].istioDetected = sig]
       /\ Goto(s, "p_rlock")
  /\ UNCHANGED <<budget, storeVars, muVars, counterVars, now, cacheVars, hl, resp,
                 histVars>>

\* main.go:195-223: uptime, the request's own hops and header signal; the
\* probe cache is consulted only when the header signal is false (||).
ReadUptime(s) ==
  /\ pc[s] = "uptime"
  /\ LET sig == hasIstioHeaders(sl[s].req) IN
       /\ sl' = [sl EXCEPT ![s].uptime = now,
                           ![s].istioHeaderSignal = sig,
                           ![s].istioDetected = sig]
       /\ Goto(s, IF sig THEN "compute" ELSE "p_rlock")
  /\ UNCHANGED <<budget, storeVars, muVars, counterVars, now, cacheVars, hl, resp,
                 histVars>>

\* ------------------------------------------------------ istioSidecarPresent
Recent_ZeroIsFresh(lastChecked) ==
  lastChecked = ZeroTime \/ now - lastChecked < Cooldown

\* time.Since(istioLastChecked) < 30*time.Second
Recent(lastChecked) == now - lastChecked < Cooldown

SkipsProbe_Never(s) == FALSE

\* `if recent { return cached }`
SkipsProbe(s) == sl[s].recent

\* main.go:397
ProbeRLock(s) ==
  /\ pc[s] = "p_rlock"
  /\ IdmCanRLock
  /\ idmReaders' = idmReaders \cup {s}
  /\ readAt' = [readAt EXCEPT ![s] = Len(refreshLog)]
  /\ Goto(s, "p_read_recent")
  /\ UNCHANGED <<budget, storeVars, muVars, counterVars, now, idmWriter,
                 istioPresentCached, istioLastChecked, hl, sl, resp, started,
                 statsCalls, arrivals, completed, committed, seen, snapTaken,
                 probes, probeLog, refreshLog>>

\* main.go:398
ReadRecent(s) ==
  /\ pc[s] = "p_read_recent"
  /\ SetL(s, "recent", Recent(istioLastChecked))
  /\ Goto(s, "p_read_cached")
  /\ UNCHANGED <<budget, storeVars, muVars, counterVars, now, cacheVars, hl, resp,
                 histVars>>

\* main.go:399
ReadCached(s) ==
  /\ pc[s] = "p_read_cached"
  /\ SetL(s, "cached", istioPresentCached)
  /\ Goto(s, "p_runlock")
  /\ UNCHANGED <<budget, storeVars, muVars, counterVars, now, cacheVars, hl, resp,
                 histVars>>

\* main.go:400-404
ProbeRUnlock(s) ==
  /\ pc[s] = "p_runlock"
  /\ idmReaders' = idmReaders \ {s}
  /\ IF SkipsProbe(s)
       THEN /\ SetL(s, "istioDetected", sl[s].cached)
            /\ Goto(s, "compute")
       ELSE /\ sl' = sl
            /\ Goto(s, "p_probe")
  /\ UNCHANGED <<budget, storeVars, muVars, counterVars, now, idmWriter,
                 istioPresentCached, istioLastChecked, hl, resp, histVars>>

ProbeEnvoyAdmin_NoTimeout(s) ==
  /\ pc[s] = "p_probe"
  /\ \E connected \in BOOLEAN :
       /\ SetL(s, "present", connected)
       /\ probeLog' = Append(probeLog, <<now, connected>>)
       /\ Goto(s, IF connected THEN "p_lock" ELSE "p_dialing")
  /\ probes' = probes + 1
  /\ UNCHANGED <<budget, storeVars, muVars, counterVars, now, cacheVars, hl, resp,
                 started, statsCalls, arrivals, completed, committed, seen,
                 snapTaken, refreshLog, readAt>>

ProbeEnvoyAdmin_FailureAborts(s) ==
  /\ pc[s] = "p_probe"
  /\ \E connected \in BOOLEAN :
       /\ SetL(s, "present", connected)
       /\ probeLog' = Append(probeLog, <<now, connected>>)
       /\ Goto(s, IF connected THEN "p_lock" ELSE "idle")
  /\ probes' = probes + 1
  /\ UNCHANGED <<budget, storeVars, muVars, counterVars, now, cacheVars, hl, resp,
                 started, statsCalls, arrivals, completed, committed, seen,
                 snapTaken, refreshLog, readAt>>

\* main.go:406, 417-424: the dial succeeds or fails (refused, timeout).
ProbeEnvoyAdmin(s) ==
  /\ pc[s] = "p_probe"
  /\ \E connected \in BOOLEAN :
       /\ SetL(s, "present", connected)
       /\ probeLog' = Append(probeLog, <<now, connected>>)
  /\ probes' = probes + 1
  /\ Goto(s, "p_lock")
  /\ UNCHANGED <<budget, storeVars, muVars, counterVars, now, cacheVars, hl, resp,
                 started, statsCalls, arrivals, completed, committed, seen,
                 snapTaken, refreshLog, readAt>>

\* main.go:408
ProbeLock(s) ==
  /\ pc[s] = "p_lock"
  /\ IdmCanLock
  /\ idmWriter' = s
  /\ Goto(s, "p_write_present")
  /\ UNCHANGED <<budget, storeVars, muVars, counterVars, now, idmReaders,
                 istioPresentCached, istioLastChecked, hl, sl, resp, histVars>>

\* main.go:409
WritePresent(s) ==
  /\ pc[s] = "p_write_present"
  /\ istioPresentCached' = sl[s].present
  /\ Goto(s, "p_write_checked")
  /\ UNCHANGED <<budget, storeVars, muVars, counterVars, now, idmWriter, idmReaders,
                 istioLastChecked, hl, sl, resp, histVars>>

WriteLastChecked_EarlierClockRead(s) ==
  /\ pc[s] = "p_write_checked"
  /\ istioLastChecked' = sl[s].uptime
  /\ Goto(s, "p_unlock")
  /\ UNCHANGED <<budget, storeVars, muVars, counterVars, now, idmWriter, idmReaders,
                 istioPresentCached, hl, sl, resp, histVars>>

WriteLastChecked_Skips(s) ==
  /\ pc[s] = "p_write_checked"
  /\ Goto(s, "p_unlock")
  /\ UNCHANGED <<budget, storeVars, muVars, counterVars, now, cacheVars, hl, sl,
                 resp, histVars>>

\* main.go:410
WriteLastChecked(s) ==
  /\ pc[s] = "p_write_checked"
  /\ istioLastChecked' = now
  /\ Goto(s, "p_unlock")
  /\ UNCHANGED <<budget, storeVars, muVars, counterVars, now, idmWriter, idmReaders,
                 istioPresentCached, hl, sl, resp, histVars>>

\* main.go:411-412
ProbeUnlock(s) ==
  /\ pc[s] = "p_unlock"
  /\ idmWriter' = None
  /\ refreshLog' = Append(refreshLog, <<istioPresentCached, istioLastChecked>>)
  /\ SetL(s, "istioDetected", sl[s].present)
  /\ Goto(s, "compute")
  /\ UNCHANGED <<budget, storeVars, muVars, counterVars, now, idmReaders,
                 istioPresentCached, istioLastChecked, hl, resp, started,
                 statsCalls, arrivals, completed, committed, seen, snapTaken,
                 probes, probeLog, readAt>>

\* main.go:225-357: compute the statistics.
StatsCompute(s) ==
  /\ pc[s] = "compute"
  /\ resp' = [resp EXCEPT ![s] = Compute(s, StatsLatencies(s), StatsHops(s))]
  /\ sl' = [sl EXCEPT ![s].latenciesCopy =
                        IF WindowEmpty(s) THEN @ ELSE AtCall(@, 5)]
  /\ Goto(s, "encode")
  /\ UNCHANGED <<budget, storeVars, muVars, counterVars, now, cacheVars, hl,
                 histVars>>

\* main.go:277-278, 359: the response is written and the request is over.
StatsEncode(s) ==
  /\ pc[s] = "encode"
  /\ resp' = [resp EXCEPT ![s] = NoResponse]
  /\ sl' = [sl EXCEPT ![s] = SLInit]
  /\ seen' = [seen EXCEPT ![s] = {}]
  /\ snapTaken' = [snapTaken EXCEPT ![s] = << << >>, << >> >>]
  /\ readAt' = [readAt EXCEPT ![s] = 0]
  /\ Goto(s, "idle")
  /\ UNCHANGED <<budget, storeVars, muVars, counterVars, now, cacheVars, hl,
                 started, statsCalls, arrivals, completed, committed, probes, probeLog,
                 refreshLog>>

StatsStep(s) ==
  \/ StatsRLock(s)
  \/ MakeLat(s)
  \/ MakeHops(s)
  \/ CopyLat(s)
  \/ CopyHops(s)
  \/ StatsRUnlock(s)
  \/ LoadRequests(s)
  \/ LoadViaProxy(s)
  \/ ReadUptime(s)
  \/ ProbeRLock(s)
  \/ ReadRecent(s)
  \/ ReadCached(s)
  \/ ProbeRUnlock(s)
  \/ ProbeEnvoyAdmin(s)
  \/ ProbeLock(s)
  \/ WritePresent(s)
  \/ WriteLastChecked(s)
  \/ ProbeUnlock(s)
  \/ StatsCompute(s)
  \/ StatsEncode(s)

\* The positions at which a task reads the clock next (time.Since at
\* main.go:196 and 398, time.Now at main.go:410).
ReadsClock(t) == pc[t] \in {"uptime", "p_read_recent", "p_write_checked"}

\* The clock advances. Time shows only where a task reads it, so the clock
\* moves just before a read.
Tick ==
  /\ now < budget.ticks
  /\ \E t \in StatsTasks : ReadsClock(t)
  /\ now' = now + 1
  /\ UNCHANGED <<budget, storeVars, muVars, counterVars, cacheVars, pc, hl, sl, resp,
                 histVars>>

Next ==
  \/ \E h \in Handlers : HandlerStep(h)
  \/ \E s \in MainStats : StatsStep(s)
  \/ Tick

Spec == Init /\ [][Next]_vars

\* The probe cache alone: two /stats tasks, no request handlers.
InitProbe ==
  /\ Start
  /\ budget = [requests |-> 0, stats |-> MaxProbeCalls, ticks |-> MaxProbeTime]

NextProbe ==
  \/ \E s \in StatsTasks : StatsStep(s)
  \/ Tick

SpecProbe == InitProbe /\ [][NextProbe]_vars

\* Scheduling: handlers and /stats requests together. The Go scheduler is
\* preemptive, so a goroutine that can take its next step eventually takes
\* it; a goroutine waiting for a lock can take it once the lock stays free.
InitLive ==
  /\ Start
  /\ budget = [requests |-> MaxLiveRequests, stats |-> MaxLiveStats,
               ticks |-> 0]

NextLive ==
  \/ \E h \in Handlers : HandlerStep(h)
  \/ \E s \in StatsTasks : StatsStep(s)

Fairness ==
  /\ \A h \in Handlers : WF_vars(HandlerStep(h))
  /\ \A s \in StatsTasks : WF_vars(StatsStep(s))

SpecLive == InitLive /\ [][NextLive]_vars /\ Fairness

\* The statistics alone, as a function of the snapshot and the loaded
\* counters: a /stats request stands at main.go:225 with any snapshot copy,
\* any counter values and any uptime, and computes and encodes.
LatVals == SleepMs..(SleepMs + MaxSpread)
HopVals == 0..MaxHops
SeqsOf(S, n) == [1..n -> S]
\* SampleLen distinct latencies in a scrambled order, no hops.
LongSample == [i \in 1..SampleLen |-> SleepMs + ((i * 77) % SampleLen)]
Snapshots ==
  UNION {SeqsOf(LatVals, n) \X SeqsOf(HopVals, n) : n \in 0..MaxLen}
    \cup {<<LongSample, [i \in 1..SampleLen |-> 0]>>}

InitStats ==
  /\ StartShared
  /\ pc = [t \in Tasks |-> IF t \in MainStats THEN "compute" ELSE "idle"]
  /\ \E snap \in Snapshots, r \in 0..MaxCount, e \in 0..MaxCount,
        u \in 0..MaxUptime :
       /\ e <= r
       /\ sl = [s \in StatsTasks |->
                 IF s \in MainStats
                   THEN [SLInit EXCEPT !.latenciesCopy = snap[1],
                                       !.proxyHopsCopy = snap[2],
                                       !.totalRequests = r,
                                       !.totalErrors = e,
                                       !.uptime = u]
                   ELSE SLInit]
  /\ budget = [requests |-> 0, stats |-> 0, ticks |-> 0]

NextStats == \E s \in MainStats : StatsCompute(s) \/ StatsEncode(s)

SpecStats == InitStats /\ [][NextStats]_vars

\* The hop classifier alone: either one request of any shape goes through
\* handler, or a /stats request of any shape stands at main.go:225.
RECURSIVE CommaList(_)
\* "a", "a,a", "a,a,a", ...
CommaList(n) == IF n = 1 THEN <<"a">> ELSE CommaList(n - 1) \o <<",", "a">>
ForwardVals == {<< >>, <<",">>} \cup {CommaList(n) : n \in 1..MaxEntries}
MarkerVals == {<< >>, <<"x">>, <<"x", ",", "y">>}
AllRequests ==
  [xff : ForwardVals, via : ForwardVals, reqid : MarkerVals,
   extaddr : MarkerVals, decorator : MarkerVals, traceid : MarkerVals,
   spanid : MarkerVals, attempt : {<< >>}, internal : {<< >>}]

InitHops ==
  \/ /\ Start
     /\ budget = [requests |-> 1, stats |-> 0, ticks |-> 0]
  \/ /\ StartShared
     /\ pc = [t \in Tasks |-> IF t \in MainStats THEN "compute" ELSE "idle"]
     /\ \E r \in AllRequests :
          sl = [s \in StatsTasks |->
                 IF s \in MainStats THEN [SLInit EXCEPT !.req = r] ELSE SLInit]
     /\ budget = [requests |-> 0, stats |-> 0, ticks |-> 0]

NextHops ==
  \/ \E h \in Handlers : HandlerStepFrom(h, AllRequests)
  \/ \E s \in MainStats : StatsCompute(s) \/ StatsEncode(s)

SpecHops == InitHops /\ [][NextHops]_vars

\* ------------------------------------------------------------ properties
Min2(a, b) == IF a < b THEN a ELSE b
LastN(s, n) == SubSeq(s, Len(s) - n + 1, Len(s))
Range(s) == {s[i] : i \in 1..Len(s)}
Zip(a, b) == [i \in 1..Len(a) |-> <<a[i], b[i]>>]
BagOfSeq(s) ==
  [x \in Range(s) |-> Cardinality({i \in 1..Len(s) : s[i] = x})]
AllHandlersIdle == \A h \in Handlers : pc[h] = "idle"
\* The positions of statsHandler after mu.RUnlock.
AfterSnapshot ==
  {"load_requests", "load_via", "uptime", "p_rlock", "p_read_recent",
   "p_read_cached", "p_runlock", "p_probe", "p_lock", "p_write_present",
   "p_write_checked", "p_unlock", "compute", "encode"}
Refreshing ==
  {"p_probe", "p_lock", "p_write_present", "p_write_checked", "p_unlock"}

\* C1: whenever every Record that took the lock has completed, the store is
\* the most recent min(N, W) of the N observations, in the order in which
\* the writers acquired the lock (eviction drops the oldest).
C1_MostRecentWindow ==
  muWriter = None =>
    /\ Len(latencies) = Len(proxyHops)
    /\ Zip(latencies, proxyHops)
         = LastN(arrivals, Min2(Len(arrivals), W))

C1_Witness == muWriter = None /\ Len(arrivals) > W

\* C2: outside a writer's critical section the store is never longer than
\* W, and no snapshot copy is ever longer than W.
C2_LengthAtMostW ==
  /\ muWriter = None => Len(latencies) <= W /\ Len(proxyHops) <= W
  /\ \A s \in StatsTasks :
       Len(sl[s].latenciesCopy) <= W /\ Len(sl[s].proxyHopsCopy) <= W

C2_Witness ==
  \E s \in StatsTasks :
    /\ pc[s] = "runlock"
    /\ Len(sl[s].latenciesCopy) = W
    /\ Len(arrivals) > W

\* C3: the two sequences of a snapshot have the same length from the moment
\* both are allocated, and once copied every index holds the latency and
\* the hop count of one recorded observation.
C3_SnapshotAligned ==
  \A s \in StatsTasks :
    /\ pc[s] \in {"copy_lat", "copy_hops", "runlock"} \cup AfterSnapshot
         => Len(sl[s].latenciesCopy) = Len(sl[s].proxyHopsCopy)
    /\ pc[s] \in {"runlock"} \cup AfterSnapshot
         => \A i \in 1..Len(sl[s].latenciesCopy) :
              i <= Len(sl[s].proxyHopsCopy)
              /\ <<sl[s].latenciesCopy[i], sl[s].proxyHopsCopy[i]>>
                   \in Range(arrivals)

C3_Witness ==
  \E s \in StatsTasks, h \in Handlers :
    /\ pc[s] = "load_requests"
    /\ Len(sl[s].latenciesCopy) = W
    /\ pc[h] \in {"append_lat", "append_hops", "evict"}

\* C4: a finished snapshot equals the store as it stood after some
\* completed Record (or at the start) during the snapshot, and is no longer
\* than the store was at that instant.
C4_SnapshotLinearizable ==
  \A s \in StatsTasks :
    pc[s] \in {"runlock"} \cup AfterSnapshot =>
      /\ <<sl[s].latenciesCopy, sl[s].proxyHopsCopy>> \in seen[s]
      /\ \E st \in seen[s] : Len(sl[s].latenciesCopy) <= Len(st[1])

C4_Witness ==
  \E s \in StatsTasks, h \in Handlers :
    /\ pc[s] = "runlock"
    /\ Len(sl[s].latenciesCopy) > 0
    /\ pc[h] = "lock"

\* C5: when all Record calls have completed, the store has min(k, W)
\* entries, each the intact pair of a completed observation counted at most
\* as often as it was recorded, and for k <= W it holds exactly the k
\* observations.
C5_NoLostOrDuplicated ==
  AllHandlersIdle =>
    /\ Len(latencies) = Len(proxyHops)
    /\ Len(latencies) = Min2(BagCardinality(completed), W)
    /\ BagOfSeq(Zip(latencies, proxyHops)) \sqsubseteq completed
    /\ BagCardinality(completed) <= W
         => BagOfSeq(Zip(latencies, proxyHops)) = completed

\* Two records ran concurrently: the one that began second took the lock
\* first.
C5_Witness ==
  /\ AllHandlersIdle
  /\ Len(arrivals) = 2
  /\ arrivals[1][1] > arrivals[2][1]

\* C6: requests_via_proxy never exceeds requests.
C6_ViaProxyAtMostRequests == requestsViaProxy <= requests

C6_Witness ==
  /\ requestsViaProxy = requests
  /\ requests >= 2
  /\ \E h \in Handlers : pc[h] = "lock"

\* C7: the three counters start at zero, no step decreases any of them, and
\* a step that changes one is a step of a request handler.
C7_CountersMonotone ==
  /\ requests = 0 /\ errors = 0 /\ requestsViaProxy = 0
  /\ [][/\ requests' >= requests
        /\ errors' >= errors
        /\ requestsViaProxy' >= requestsViaProxy
        /\ counterVars' # counterVars
             => \E h \in Handlers :
                  pc[h] \in {"idle", "add_via"} /\ pc'[h] # pc[h]]_vars

C7_Witness ==
  /\ requests = MaxRequests
  /\ requestsViaProxy > 0
  /\ \E s \in StatsTasks : pc[s] = "encode"

\* C8: from mu.RUnlock on, the copies stay what they were at mu.RUnlock
\* whatever the handlers record, and the response is computed from them.
C8_SnapshotIndependent ==
  \A s \in StatsTasks :
    /\ pc[s] \in AfterSnapshot
         => <<sl[s].latenciesCopy, sl[s].proxyHopsCopy>> = snapTaken[s]
    /\ pc[s] = "encode"
         => resp[s] = Compute(s, snapTaken[s][1], snapTaken[s][2])

C8_Witness ==
  \E s \in StatsTasks :
    /\ pc[s] = "encode"
    /\ Len(snapTaken[s][1]) > 0
    /\ muWriter = None
    /\ latencies # snapTaken[s][1]

\* C9: a stats task holds the read lock of the store only in its copy
\* phase; with no task in the copy phase and no writer, Lock is free.
C9_LockOnlyWhileCopying ==
  /\ \A s \in StatsTasks : s \in muReaders => InSnapshot(s)
  /\ (muWriter = None /\ \A s \in StatsTasks : ~InSnapshot(s)) => MuCanLock

C9_Witness ==
  \E s \in StatsTasks, h \in Handlers :
    /\ pc[s] = "p_probe"
    /\ muWriter = h

\* C10: a call that finds the cache Fresh issues no probe, none of its steps
\* changes present, checked_at or the probe count, and it returns the
\* boolean the latest refresh stored; so all Fresh calls served by one
\* refresh return the same value.
C10_FreshReturnsCached ==
  /\ [](\A s \in StatsTasks :
          /\ pc[s] \in Refreshing => ~sl[s].recent
          /\ (pc[s] = "compute" /\ sl[s].recent) =>
               /\ sl[s].istioDetected = sl[s].cached
               /\ readAt[s] >= 1
               /\ readAt[s] <= Len(refreshLog)
               /\ sl[s].cached = refreshLog[readAt[s]][1])
  /\ [][\A s \in StatsTasks :
          /\ (pc[s] = "p_runlock" /\ sl[s].recent /\ pc'[s] # pc[s])
               => pc'[s] = "compute"
          /\ (/\ pc[s] \in {"p_rlock", "p_read_recent", "p_read_cached",
                             "p_runlock"}
              /\ pc'[s] \in {"p_read_recent", "p_read_cached", "p_runlock",
                              "compute"}
              /\ pc'[s] # pc[s])
               => UNCHANGED <<istioPresentCached, istioLastChecked, probes,
                              refreshLog>>]_vars

C10_Witness ==
  \E s \in StatsTasks :
    /\ pc[s] = "compute"
    /\ sl[s].recent
    /\ sl[s].cached
    /\ probes = 1
    /\ statsCalls = MaxProbeCalls

\* A step of task s.
Moves(s) == pc'[s] # pc[s]

\* C11: a call that finds the cache stale issues exactly one probe (it goes
\* from the read section to the probe, the probe counts once, and the call
\* does not come back to the probe), stores present = the probe's result and
\* checked_at = the time of the write, returns the probe's result, and leaves
\* a cache that every read less than a cooldown after checked_at finds
\* fresh, upon which no probe is issued.
C11_StaleCallRefreshes ==
  [][\A s \in StatsTasks :
       /\ pc[s] = "p_runlock" /\ ~sl[s].recent /\ Moves(s)
            => pc'[s] = "p_probe" /\ probes' = probes
       /\ pc[s] = "p_probe" /\ Moves(s)
            => pc'[s] = "p_lock" /\ probes' = probes + 1
       /\ pc[s] \in Refreshing \ {"p_probe"} /\ Moves(s)
            => pc'[s] # "p_probe" /\ pc'[s] \in Refreshing \cup {"compute"}
       /\ pc[s] = "p_write_present" /\ Moves(s)
            => /\ istioPresentCached' = sl[s].present
               /\ idmWriter = s
       /\ pc[s] = "p_write_checked" /\ Moves(s)
            => /\ istioLastChecked' = now
               /\ istioPresentCached' = sl[s].present
               /\ idmWriter = s
       /\ pc[s] = "p_unlock" /\ Moves(s)
            => /\ pc'[s] = "compute"
               /\ sl'[s].istioDetected = sl[s].present
               /\ istioPresentCached' = sl[s].present
               /\ istioLastChecked' = istioLastChecked
               /\ istioLastChecked \in 0..now
       /\ pc[s] = "p_read_recent" /\ Moves(s)
            => sl'[s].recent = (now - istioLastChecked < Cooldown)
       /\ pc[s] = "p_runlock" /\ sl[s].recent /\ Moves(s)
            => pc'[s] = "compute" /\ probes' = probes
  ]_vars

\* A stale call has probed once, stored and returned the positive result,
\* and the cache is fresh.
C11_Witness ==
  \E s \in StatsTasks :
    /\ pc[s] = "compute"
    /\ ~sl[s].istioHeaderSignal
    /\ ~sl[s].recent
    /\ sl[s].present
    /\ sl[s].istioDetected
    /\ probes = 1
    /\ istioPresentCached
    /\ istioLastChecked = now
    /\ now - istioLastChecked < Cooldown

\* C12: the cache is refreshed at most once per cooldown: any two probes
\* are issued at least one cooldown apart.
C12_OneProbePerCooldown ==
  \A i, j \in 1..Len(probeLog) :
    i < j => probeLog[j][1] - probeLog[i][1] >= Cooldown

\* The positions of a call whose probe has completed and is not yet
\* written back.
WritingBack == {"p_lock", "p_write_present", "p_write_checked", "p_unlock"}

\* The <<present, checked_at>> pair stored after i refreshes.
StoredAfter(i) ==
  IF i = 0 THEN <<FALSE, ZeroTime>>
  ELSE IF i <= Len(refreshLog) THEN refreshLog[i]
  ELSE <<istioPresentCached, istioLastChecked>>

\* C13: the stored probe state is consistent. Once every completed probe
\* is written back, the stored present is the result of the most recently
\* completed probe; and a reader holding the read lock sees present and
\* checked_at of one and the same refresh.
C13_StoredStateConsistent ==
  /\ (probeLog # << >> /\ \A s \in StatsTasks : pc[s] \notin WritingBack)
        => istioPresentCached = probeLog[Len(probeLog)][2]
  /\ \A s \in StatsTasks :
        /\ pc[s] \in {"p_read_recent", "p_read_cached", "p_runlock"}
             => <<istioPresentCached, istioLastChecked>> = StoredAfter(readAt[s])
        /\ pc[s] = "p_runlock" => sl[s].cached = StoredAfter(readAt[s])[1]

\* C14: the stored checked_at never decreases, whatever the order in which
\* concurrent refreshes write back.
C14_CheckedAtMonotone ==
  [][istioLastChecked' >= istioLastChecked]_vars

\* Two refreshes have written back in the reverse order of their probes:
\* the earlier probe's result was stored last, with the later checked_at.
C14_Witness ==
  /\ Len(probeLog) = 2
  /\ Len(refreshLog) = 2
  /\ probeLog[1][1] < probeLog[2][1]
  /\ probeLog[1][2] # probeLog[2][2]
  /\ refreshLog[1][1] = probeLog[2][2]
  /\ refreshLog[2][1] = probeLog[1][2]
  /\ refreshLog[1][2] < refreshLog[2][2]
  /\ istioLastChecked = refreshLog[2][2]

\* Task s has probed in this call and the probe failed.
ProbeFailed(s) ==
  /\ pc[s] \in WritingBack \cup {"compute", "encode"}
  /\ ~sl[s].istioHeaderSignal
  /\ ~sl[s].recent
  /\ ~sl[s].present

\* C15: a failed probe is a plain false. The call goes on to the write-back
\* whatever the probe's outcome, stores present = false with checked_at =
\* the time of the write, returns false, and the stats request goes on to
\* compute and encode a response that reports no sidecar.
C15_FailedProbeIsFalse ==
  /\ [][\A s \in StatsTasks :
          /\ pc[s] = "p_probe" /\ Moves(s)
               => pc'[s] = "p_lock" /\ sl'[s].present \in BOOLEAN
          /\ ProbeFailed(s) /\ pc[s] = "p_write_checked" /\ Moves(s)
               => /\ istioLastChecked' = now
                  /\ istioPresentCached' = FALSE
                  /\ pc'[s] = "p_unlock"
          /\ ProbeFailed(s) /\ pc[s] = "p_unlock" /\ Moves(s)
               => pc'[s] = "compute" /\ sl'[s].istioDetected = FALSE
          /\ ProbeFailed(s) /\ pc[s] = "compute" /\ Moves(s)
               => /\ pc'[s] = "encode"
                  /\ resp'[s].istio_sidecar_detected = FALSE
          /\ ProbeFailed(s) /\ pc[s] = "encode" /\ Moves(s)
               => pc'[s] = "idle"
     ]_vars
  /\ [](\A s \in StatsTasks :
          ProbeFailed(s) /\ pc[s] # "p_lock" => ENABLED StatsStep(s))

\* A stats request whose probe failed has its response: no sidecar, and
\* the cache holds false with the time of the write.
C15_Witness ==
  \E s \in StatsTasks :
    /\ ProbeFailed(s)
    /\ pc[s] = "encode"
    /\ resp[s].istio_sidecar_detected = FALSE
    /\ istioPresentCached = FALSE
    /\ istioLastChecked = now
    /\ probeLog = << <<0, FALSE>> >>

\* What istioSidecarPresent returned to task s: the cached value of a fresh
\* cache, else the result of the call's own probe (false if not called).
ProbeCacheResult(s) == IF sl[s].recent THEN sl[s].cached ELSE sl[s].present

\* C16: a response's istio_sidecar_detected is the disjunction of the
\* request's header signal and the probe-cache result.
C16_DetectedIsDisjunction ==
  \A s \in StatsTasks :
    pc[s] = "encode"
      => resp[s].istio_sidecar_detected
           = (hasIstioHeaders(sl[s].req) \/ ProbeCacheResult(s))

\* Each signal alone suffices: the cache has been refreshed to false and a
\* request with mesh headers is answered true, while a request without
\* headers whose own probe succeeded is answered true as well.
C16_Witness ==
  \E s, t \in StatsTasks :
    /\ pc[s] = "encode"
    /\ hasIstioHeaders(sl[s].req)
    /\ refreshLog # << >>
    /\ ~istioPresentCached
    /\ resp[s].istio_sidecar_detected
    /\ pc[t] = "encode"
    /\ ~hasIstioHeaders(sl[t].req)
    /\ ProbeCacheResult(t)
    /\ resp[t].istio_sidecar_detected

\* The percentiles statsHandler asks for (in thousandths) and the response
\* fields that carry them.
PercentileFields ==
  {<<500, "p50_latency_ms">>, <<950, "p95_latency_ms">>,
   <<990, "p99_latency_ms">>, <<999, "p999_latency_ms">>}

\* The rank ceil(p * n): the one k with k - 1 < p * n <= k.
NearestRank(pm, n) ==
  CHOOSE k \in 0..n : 1000 * (k - 1) < pm * n /\ pm * n <= 1000 * k

\* v is the k-th smallest element of data.
IsKthSmallest(data, k, v) ==
  /\ v \in Range(data)
  /\ Cardinality({i \in 1..Len(data) : data[i] < v}) < k
  /\ k <= Cardinality({i \in 1..Len(data) : data[i] <= v})

\* C17: for a non-empty snapshot each percentile of the response is the
\* element of rank ceil(p * len) of the snapshot in ascending order, that
\* rank lies in 1..len (index ceil(p * len) - 1 in 0..len-1), and a
\* one-element snapshot yields its element for every percentile. The index
\* is in range for every length up to the window capacity.
C17_PercentileNearestRank ==
  \A s \in MainStats :
    pc[s] = "encode" /\ Len(sl[s].latenciesCopy) > 0
      => LET data == sl[s].latenciesCopy
             n == Len(data)
         IN /\ \A q \in PercentileFields :
                 LET k == NearestRank(q[1], n)
                 IN /\ k \in 1..n
                    /\ \E v \in Range(data) :
                         /\ IsKthSmallest(data, k, v)
                         /\ resp[s][q[2]] = 100 * v
            /\ n = 1 => \A q \in PercentileFields :
                          resp[s][q[2]] = 100 * data[1]
            /\ n = SampleLen
                 => \A m \in 1..WindowCap : \A q \in PercentileFields :
                      LET k == CeilMille(q[1], m)
                      IN /\ k - 1 \in 0..(m - 1)
                         /\ 1000 * (k - 1) < q[1] * m
                         /\ q[1] * m <= 1000 * k

\* The long sample has been summarized: min < p50 < p95 < p99 < p999 = max.
C17_Witness ==
  \E s \in MainStats :
    /\ pc[s] = "encode"
    /\ Len(sl[s].latenciesCopy) = SampleLen
    /\ resp[s].min_latency_ms < resp[s].p50_latency_ms
    /\ resp[s].p50_latency_ms < resp[s].p95_latency_ms
    /\ resp[s].p95_latency_ms < resp[s].p99_latency_ms
    /\ resp[s].p99_latency_ms < resp[s].p999_latency_ms
    /\ resp[s].p999_latency_ms = resp[s].max_latency_ms

\* C18: percentile never runs on an empty sequence. The emptiness check
\* and the percentile calls read the same snapshot copy, whatever writers
\* do to the store meanwhile: no response comes from a computation that
\* indexed an empty copy, an empty copy gives the zero percentiles of the
\* empty branch, and a non-empty copy gives percentiles that are elements
\* of that copy.
C18_PercentileOnNonEmptyCopy ==
  \A s \in StatsTasks :
    pc[s] = "encode"
      => LET copy == sl[s].latenciesCopy
         IN /\ ~resp[s].panicked
            /\ copy = snapTaken[s][1]
            /\ resp[s].window = Len(copy)
            /\ \A q \in PercentileFields :
                 IF Len(copy) = 0
                   THEN resp[s][q[2]] = 0
                   ELSE \E i \in 1..Len(copy) : resp[s][q[2]] = 100 * copy[i]

\* A response computed from an empty snapshot while writers have already
\* filled the store.
C18_Witness ==
  \E s \in StatsTasks :
    /\ pc[s] = "encode"
    /\ sl[s].latenciesCopy = << >>
    /\ Len(latencies) = W
    /\ ~resp[s].panicked
    /\ resp[s].p50_latency_ms = 0
    /\ resp[s].p999_latency_ms = 0

\* The latency fields of a response.
LatencyFields ==
  {"avg_latency_ms", "p50_latency_ms", "p95_latency_ms", "p99_latency_ms",
   "p999_latency_ms", "min_latency_ms", "max_latency_ms"}

\* rps is requests / uptime rounded to hundredths (non-finite for a zero
\* uptime).
IsRate(rps, totalRequests, uptime) ==
  IF uptime > 0
    THEN /\ rps.kind = "finite"
         /\ 2 * rps.hundredths * uptime - 200 * totalRequests \in
              (0 - uptime)..uptime
    ELSE rps.kind # "finite"

\* C19: a response computed from an empty snapshot has success rate 100,
\* every latency field zero, avg_proxy_hops zero, and requests_per_second
\* = loaded requests counter / uptime, also when the counter is already
\* positive.
C19_EmptyWindowResponse ==
  \A s \in StatsTasks :
    pc[s] = "encode" /\ sl[s].latenciesCopy = << >>
      => /\ resp[s].success_rate_percent = 100 * 100
         /\ \A f \in LatencyFields : resp[s][f] = 0
         /\ resp[s].avg_proxy_hops = 0
         /\ resp[s].requests = sl[s].totalRequests
         /\ IsRate(resp[s].requests_per_second, sl[s].totalRequests,
                   sl[s].uptime)

\* An empty snapshot answered while handlers have counted requests and
\* appended observations with hops since.
C19_Witness ==
  \E s \in StatsTasks :
    /\ pc[s] = "encode"
    /\ sl[s].latenciesCopy = << >>
    /\ resp[s].requests > 0
    /\ resp[s].requests_per_second.kind = "finite"
    /\ resp[s].requests_per_second.hundredths > 0
    /\ resp[s].success_rate_percent = 100 * 100
    /\ resp[s].avg_proxy_hops = 0
    /\ proxyHops # << >>
    /\ Sum(proxyHops) > 0

\* C20: success_rate_percent is 100 when the loaded requests counter is 0
\* (no division takes place), and otherwise 100 * (requests - errors) /
\* requests of the loaded values, rounded to hundredths, whether the
\* snapshot is empty or not.
C20_SuccessRate ==
  \A s \in MainStats :
    pc[s] = "encode"
      => LET r == sl[s].totalRequests
             e == sl[s].totalErrors
             v == resp[s].success_rate_percent
         IN /\ resp[s].requests = r
            /\ resp[s].errors = e
            /\ IF r = 0
                 THEN v = 100 * 100
                 ELSE 2 * v * r - 2 * 100 * 100 * (r - e) \in (0 - r)..r

\* The empty branch with loaded errors: one error in two requests is 50%.
C20_Witness ==
  \E s \in MainStats :
    /\ pc[s] = "encode"
    /\ sl[s].latenciesCopy = << >>
    /\ sl[s].totalRequests = 2
    /\ sl[s].totalErrors = 1
    /\ resp[s].success_rate_percent = 50 * 100

\* C21: requests_per_second is never the quotient by a zero uptime: every
\* response carries a finite rate.
C21_RateNeverDividesByZero ==
  \A s \in MainStats :
    pc[s] = "encode" => resp[s].requests_per_second.kind = "finite"

\* The total of a sequence of naturals, by counting units.
Total(s) == Cardinality({<<i, j>> \in (1..Len(s)) \X (1..10) : j <= s[i]})

\* C22: avg_proxy_hops is the mean of the snapshot's hop counts to the
\* hundredth, 0 for an empty snapshot; the hop counts are those of the
\* snapshot taken under the read lock, one per reported latency, each the
\* hop count of the observation whose latency stands at the same index.
C22_AvgHopsIsSnapshotMean ==
  \A s \in StatsTasks :
    pc[s] = "encode"
      => LET hops == sl[s].proxyHopsCopy
             lats == sl[s].latenciesCopy
             n == Len(hops)
             v == resp[s].avg_proxy_hops
         IN /\ hops = snapTaken[s][2]
            /\ lats = snapTaken[s][1]
            /\ n = Len(lats)
            /\ n = resp[s].window
            /\ \A i \in 1..n : <<lats[i], hops[i]>> \in Range(arrivals)
            /\ IF n = 0
                 THEN v = 0
                 ELSE 2 * v * n - 2 * 100 * Total(hops) \in (0 - n)..n

\* A full snapshot with a mean of one hop (one plain request, one through
\* two proxies), taken before a third observation changed the store.
C22_Witness ==
  \E s \in StatsTasks :
    /\ pc[s] = "encode"
    /\ Len(sl[s].proxyHopsCopy) = 2
    /\ Total(sl[s].proxyHopsCopy) = 2
    /\ sl[s].proxyHopsCopy[1] # sl[s].proxyHopsCopy[2]
    /\ resp[s].avg_proxy_hops = 100
    /\ proxyHops # sl[s].proxyHopsCopy

\* The number of commas in a header value.
Commas(v) == Cardinality({i \in 1..Len(v) : v[i] = ","})

\* The entries a forwarding header lists: none if empty, else commas + 1.
Entries(v) == IF Len(v) = 0 THEN 0 ELSE 1 + Commas(v)

\* The traditional hops of a request.
Traditional(r) == Entries(r.xff) + Entries(r.via)

\* C23: the traditional hop count a /stats response reports for its
\* request is the entries of X-Forwarded-For plus the entries of Via, an
\* empty or absent header counting 0.
C23_TraditionalHops ==
  \A s \in MainStats :
    pc[s] = "encode" => resp[s].proxy_hop_count = Traditional(sl[s].req)

\* X-Forwarded-For with three addresses and a single-entry Via: 4 hops.
C23_Witness ==
  \E s \in MainStats :
    /\ pc[s] = "encode"
    /\ sl[s].req.xff = <<"a", ",", "a", ",", "a">>
    /\ sl[s].req.via = <<"a">>
    /\ resp[s].proxy_hop_count = 4

\* The mesh marker headers.
MeshHeaders == {"reqid", "extaddr", "decorator", "traceid", "spanid"}

\* The number of marker headers with a non-empty value.
Mesh(r) == Cardinality({f \in MeshHeaders : r[f] # << >>})

\* C24: the mesh hop count a /stats response reports is the number of
\* marker headers with a non-empty value, whatever the values and whatever
\* the forwarding headers; it lies in 0..5.
C24_MeshHops ==
  \A s \in MainStats :
    pc[s] = "encode"
      => /\ resp[s].service_mesh_hops = Mesh(sl[s].req)
         /\ resp[s].service_mesh_hops \in 0..5

\* Two markers, one with a comma in its value, and a forwarding chain: the
\* mesh count is 2.
C24_Witness ==
  \E s \in MainStats :
    /\ pc[s] = "encode"
    /\ sl[s].req.traceid = <<"x", ",", "y">>
    /\ sl[s].req.decorator = <<"x">>
    /\ sl[s].req.reqid = << >>
    /\ sl[s].req.extaddr = << >>
    /\ sl[s].req.spanid = << >>
    /\ sl[s].req.xff = <<"a", ",", "a">>
    /\ resp[s].service_mesh_hops = 2
    /\ resp[s].proxy_hop_count = 2

\* C25: the total is traditional + mesh; a response's proxy_detected is
\* total > 0; handler appends that same total to the store and adds one to
\* requests_via_proxy exactly for a request with a positive total.
C25_TotalHops ==
  /\ [](/\ \A s \in MainStats :
            pc[s] = "encode"
              => /\ resp[s].total_hop_count
                      = Traditional(sl[s].req) + Mesh(sl[s].req)
                 /\ resp[s].proxy_detected = (resp[s].total_hop_count > 0)
        /\ \A h \in Handlers :
            pc[h] # "idle"
              => hl[h].hops = Traditional(hl[h].req) + Mesh(hl[h].req))
  /\ [][/\ \A h \in Handlers :
            /\ pc[h] = "add_via" /\ Moves(h)
                 => requestsViaProxy' = requestsViaProxy
                      + (IF Traditional(hl[h].req) + Mesh(hl[h].req) > 0
                           THEN 1 ELSE 0)
            /\ pc[h] = "append_hops" /\ Moves(h)
                 => proxyHops' = Append(proxyHops, Traditional(hl[h].req)
                                                    + Mesh(hl[h].req))
        /\ requestsViaProxy' # requestsViaProxy
             => \E h \in Handlers : pc[h] = "add_via" /\ Moves(h)
     ]_vars

\* A request with mesh markers only has been recorded: total 2 in the
\* store and one request via proxy.
C25_Witness ==
  \E h \in Handlers :
    /\ pc[h] = "unlock"
    /\ Traditional(hl[h].req) = 0
    /\ Mesh(hl[h].req) = 2
    /\ proxyHops = <<2>>
    /\ requestsViaProxy = 1
    /\ requests = 1

\* C26: Record never allocates: the capacity reserved at start-up is the
\* capacity of both slices for ever, and whenever a writer is about to
\* append, the slice has room for one more element.
C26_NoReallocation ==
  /\ caps.latencies <= W
  /\ caps.proxyHops <= W
  /\ \A h \in Handlers :
       /\ pc[h] = "append_lat" => Len(latencies) < caps.latencies
       /\ pc[h] = "append_hops" => Len(proxyHops) < caps.proxyHops

\* C27: the store as seen outside a writer's critical section is the store
\* of the last unlock; from one unlock to the next its length never
\* decreases, and once it is W it stays W. A non-empty store is never
\* empty again, in any state.
C27_StoreNeverShrinks ==
  /\ [](muWriter = None => <<latencies, proxyHops>> = committed)
  /\ [][/\ muWriter # None /\ muWriter' = None
            => /\ Len(latencies') >= Len(committed[1])
               /\ Len(proxyHops') >= Len(committed[2])
               /\ Len(committed[1]) = W
                    => Len(latencies') = W /\ Len(proxyHops') = W
        /\ Len(latencies) > 0 => Len(latencies') > 0
        /\ Len(proxyHops) > 0 => Len(proxyHops') > 0
     ]_vars

\* A full window has gone through one more Record and is full still.
C27_Witness ==
  /\ muWriter = None
  /\ Len(arrivals) = W + 1
  /\ Len(latencies) = W
  /\ Len(proxyHops) = W
  /\ Len(committed[1]) = W

\* The locks task t holds.
HoldsMu(t) == muWriter = t \/ t \in muReaders
HoldsIdm(t) == idmWriter = t \/ t \in idmReaders

\* C28: under fair scheduling every request that has begun completes: the
\* workload being finite, all tasks are between requests again and again,
\* so no task stays inside a request for ever. No task holds the store lock
\* and the probe-cache lock together, a task between requests holds no lock
\* (so every lock taken is released), and a call whose probe did not
\* connect is among the calls that complete.
C28_EveryRequestCompletes ==
  /\ [](\A t \in Tasks :
          /\ ~(HoldsMu(t) /\ HoldsIdm(t))
          /\ pc[t] = "idle" => ~HoldsMu(t) /\ ~HoldsIdm(t))
  /\ []<>(\A t \in Tasks : pc[t] = "idle")

\* A handler waits for the store lock held by a /stats request taking its
\* snapshot, while the other /stats request, whose probe did not connect,
\* has returned from the probe and goes on to store the result.
C28_Witness ==
  \E h \in Handlers, s, u \in StatsTasks :
    /\ pc[h] = "lock"
    /\ s \in muReaders
    /\ pc[u] = "p_lock"
    /\ ~sl[u].present

\* C30: every stats response reports requests_via_proxy <= requests, also
\* when handlers increment the counters between the two loads.
C30_ViaProxyAtMostRequestsReported ==
  \A s \in StatsTasks :
    pc[s] = "encode" => resp[s].requests_via_proxy <= resp[s].requests

\* C29: percentile leaves its input as it found it. Across the computation
\* the snapshot copy keeps its elements in their order, each of the four
\* percentile calls finds the snapshot as it was taken, and the sum, the
\* minimum, the maximum and the four percentiles reported are those of that
\* one snapshot.
C29_PercentileLeavesInput ==
  [][\A s \in MainStats :
       pc[s] = "compute" /\ pc'[s] = "encode" =>
         LET snap == sl[s].latenciesCopy
         IN /\ sl'[s].latenciesCopy = snap
            /\ Len(snap) > 0 =>
                 /\ \A k \in 1..5 : AtCall(snap, k) = snap
                 /\ resp'[s].avg_latency_ms = round(Sum(snap), Len(snap))
                 /\ resp'[s].min_latency_ms = round(Min(snap), 1)
                 /\ resp'[s].max_latency_ms = round(Max(snap), 1)
                 /\ \A f \in PercentileFields :
                      resp'[s][f[2]] = round(percentile(snap, f[1]), 1)]_vars

\* A response computed from a snapshot that is not in ascending order.
C29_Witness ==
  \E s \in MainStats :
    /\ pc[s] = "encode"
    /\ Len(sl[s].latenciesCopy) = MaxLen
    /\ sl[s].latenciesCopy[1] > sl[s].latenciesCopy[MaxLen]
    /\ resp[s].min_latency_ms < resp[s].p50_latency_ms

\* The observations appended so far to latencies and to proxyHops: one per
\* writer that took the lock, less the writer that has not appended yet.
AppendedLat ==
  Len(arrivals) - Cardinality({h \in Handlers : pc[h] = "append_lat"})
AppendedHops ==
  Len(arrivals)
    - Cardinality({h \in Handlers : pc[h] \in {"append_lat", "append_hops"}})

\* C31: the observations ever appended to the store never outnumber the
\* requests counter, and the window a stats response computes its latency
\* statistics from is no longer than the requests value it reports.
C31_AppendedAtMostRequests ==
  /\ AppendedLat <= requests
  /\ AppendedHops <= requests
  /\ Len(latencies) <= requests
  /\ \A s \in StatsTasks :
       /\ pc[s] \in AfterSnapshot \ {"load_requests"}
            => Len(sl[s].latenciesCopy) <= sl[s].totalRequests
       /\ pc[s] = "encode" => resp[s].window <= resp[s].requests

\* A response whose window is as long as the requests value it reports,
\* computed while a handler is serving a further request.
C31_Witness ==
  \E s \in StatsTasks, h \in Handlers :
    /\ pc[s] = "encode"
    /\ resp[s].window = W
    /\ resp[s].requests = W
    /\ pc[h] = "append_lat"
    /\ requests = W + 1

\* C32: nothing increments errors. The counter is 0 in every state, no step
\* changes it, and every stats response reports errors = 0 and a success
\* rate of 100 percent, however many requests were handled.
C32_ErrorsAlwaysZero ==
  /\ [](/\ errors = 0
        /\ \A s \in StatsTasks :
             /\ sl[s].totalErrors = 0
             /\ pc[s] = "encode"
                  => /\ resp[s].errors = 0
                     /\ resp[s].success_rate_percent = 10000)
  /\ [][errors' = errors]_vars

\* A response that reports every request of the scenario, computed over a
\* full window.
C32_Witness ==
  \E s \in StatsTasks :
    /\ pc[s] = "encode"
    /\ resp[s].requests = MaxRequests
    /\ resp[s].window = W
    /\ resp[s].success_rate_percent = 10000

\* The positions of statsHandler inside istioSidecarPresent.
InProbeCache ==
  {"p_rlock", "p_read_recent", "p_read_cached", "p_runlock", "p_probe",
   "p_lock", "p_write_present", "p_write_checked", "p_unlock"}

\* C33: a stats request that carries the header signal never enters
\* istioSidecarPresent: none of its steps probes, takes the probe-cache
\* lock or changes present or checked_at, whether the cache is fresh or
\* stale, and it reports the sidecar as detected. Only requests without
\* the signal are found inside istioSidecarPresent.
C33_HeaderSignalSkipsProbe ==
  /\ [](\A s \in StatsTasks :
          /\ pc[s] \in InProbeCache => ~hasIstioHeaders(sl[s].req)
          /\ pc[s] = "encode" /\ hasIstioHeaders(sl[s].req)
               => resp[s].istio_sidecar_detected)
  /\ [][\A s \in StatsTasks :
          Moves(s) /\ hasIstioHeaders(sl[s].req)
            => /\ UNCHANGED <<istioPresentCached, istioLastChecked>>
               /\ UNCHANGED <<idmWriter, idmReaders>>
               /\ UNCHANGED <<probes, probeLog, refreshLog>>]_vars

\* A request with the header signal has its response while the cache,
\* refreshed by an earlier probe, is stale again.
C33_Witness ==
  \E s \in StatsTasks :
    /\ pc[s] = "encode"
    /\ sl[s].istioHeaderSignal
    /\ probes = 1
    /\ Len(refreshLog) = 1
    /\ ~Recent(istioLastChecked)

\* C34: a stats request is read-only for the collected metrics. No step of
\* a stats task changes either sequence of the store, the three counters,
\* or what the handlers have started, appended or completed; it is not
\* counted in requests and adds no observation. The writer side of the
\* store lock is not touched either.
C34_StatsIsReadOnly ==
  [][\A s \in StatsTasks :
       Moves(s) => /\ UNCHANGED <<latencies, proxyHops, caps>>
                   /\ UNCHANGED <<requests, errors, requestsViaProxy>>
                   /\ UNCHANGED <<started, arrivals, completed, committed>>
                   /\ UNCHANGED <<muWriter, hl>>]_vars

\* A stats request that refreshed the probe cache has its response, while
\* the handlers have served every request of the scenario and filled the
\* window.
C34_Witness ==
  \E s \in StatsTasks :
    /\ pc[s] = "encode"
    /\ Len(refreshLog) = 1
    /\ AllHandlersIdle
    /\ requests = MaxRequests
    /\ Len(latencies) = W
    /\ resp[s].requests < requests

\* C35: for every non-empty snapshot the reported values are ordered
\* min <= p50 <= p95 <= p99 <= p999 <= max, each percentile is an element
\* of the snapshot, and min <= avg <= max.
C35_ReportedValuesOrdered ==
  \A s \in StatsTasks :
    pc[s] = "encode" /\ Len(sl[s].latenciesCopy) > 0 =>
      LET r == resp[s]
          reported == {round(x, 1) : x \in Range(sl[s].latenciesCopy)}
      IN /\ r.min_latency_ms <= r.p50_latency_ms
         /\ r.p50_latency_ms <= r.p95_latency_ms
         /\ r.p95_latency_ms <= r.p99_latency_ms
         /\ r.p99_latency_ms <= r.p999_latency_ms
         /\ r.p999_latency_ms <= r.max_latency_ms
         /\ \A f \in PercentileFields : r[f[2]] \in reported
         /\ r.min_latency_ms <= r.avg_latency_ms
         /\ r.avg_latency_ms <= r.max_latency_ms

\* The response for the long sample of distinct latencies: the values are
\* strictly apart up to p99, and p999 is the maximum.
C35_Witness ==
  \E s \in StatsTasks :
    /\ pc[s] = "encode"
    /\ Len(sl[s].latenciesCopy) = SampleLen
    /\ resp[s].min_latency_ms < resp[s].p50_latency_ms
    /\ resp[s].p50_latency_ms < resp[s].p95_latency_ms
    /\ resp[s].p95_latency_ms < resp[s].p99_latency_ms
    /\ resp[s].p999_latency_ms = resp[s].max_latency_ms
    /\ resp[s].min_latency_ms < resp[s].avg_latency_ms
    /\ resp[s].avg_latency_ms < resp[s].max_latency_ms

\* C36: the probe cache starts stale. Until the first probe it holds
\* present = false and the zero time, which is not recent at any time; a
\* call that read the cache before any write-back does not return the
\* cached value but probes; and a response without the header signal
\* reports the sidecar only after some probe has connected.
C36_CacheStartsStale ==
  /\ probes = 0
       => /\ istioLastChecked = ZeroTime
          /\ ~istioPresentCached
          /\ ~Recent(istioLastChecked)
  /\ \A s \in StatsTasks :
       /\ pc[s] \in {"p_read_cached", "p_runlock"} /\ readAt[s] = 0
            => ~SkipsProbe(s)
       /\ probes = 0 => pc[s] \notin WritingBack
       /\ pc[s] = "encode" /\ ~sl[s].istioHeaderSignal
            /\ resp[s].istio_sidecar_detected
            => \E i \in 1..Len(probeLog) : probeLog[i][2]

\* The first call after startup has probed, the probe connected, and the
\* response reports the sidecar.
C36_Witness ==
  \E s \in StatsTasks :
    /\ pc[s] = "encode"
    /\ ~sl[s].istioHeaderSignal
    /\ statsCalls = 1
    /\ probes = 1
    /\ resp[s].istio_sidecar_detected
====
